---------------------------- MODULE Spec2Model ----------------------------
(***************************************************************************)
(* Model of the hardware_simulator crate of nand2tetris-rs:                *)
(*   - the HDL instruction parser (parser/instruction.rs),                 *)
(*   - the generic whitespace/comment skipper (parser/mod.rs),             *)
(*   - the builtin NAND chip (model/builtin.rs) and the NativeChip         *)
(*     implementation of the chip trait (model/chip/native/mod.rs).        *)
(*                                                                         *)
(* A text is a sequence of characters; a character is a one-character      *)
(* string.  A character above U+007F is written as the token "U+XXXX".     *)
(* A &str slice is a record [off, txt]: the offset of its first character  *)
(* in the text handed to the outermost parser, and its content.            *)
(***************************************************************************)
EXTENDS Integers, Sequences, FiniteSets, TLC

VARIABLES
    input,      \* parser: the text handed to the last parser call
    gen,        \* parser: the parts the text was assembled from
    op,         \* parser: the function last called
    result,     \* parser: what it returned
    chip,       \* simulator: the chip object under simulation
    pins,       \* simulator: the argument of the last eval call
    out,        \* simulator: the vector the last eval call returned
    iface,      \* simulator: the value of the last interface() call
    lastCall,   \* simulator: "none", "eval", "clock" or "interface"
    nEval,      \* simulator: number of eval calls so far
    nClock,     \* simulator: number of clock calls so far
    panicked    \* simulator: a call unwound with a panic

parserVars == <<input, gen, op, result>>
chipVars == <<chip, pins, out, iface, lastCall, nEval, nClock, panicked>>
vars == <<input, gen, op, result, chip, pins, out, iface, lastCall, nEval, nClock, panicked>>

---------------------------------------------------------------------------
(* Bounds of the model *)

MaxSymLen == 3      \* longest text of the symbol alphabet handed to Symbol::try_from
MaxSpaceLen == 4    \* longest text handed to generic_space0 / generic_space1
MaxArgs == 2        \* most arguments of a generated instruction
MaxCalls == 3       \* most eval calls, and most clock calls, on one chip
MaxPins == 3        \* longest pin vector handed to eval

---------------------------------------------------------------------------
(* Characters *)

Digit == {"0", "1", "2", "3", "4", "5", "6", "7", "8", "9"}
Lower == {"a", "b", "c", "d", "e", "f", "g", "h", "i", "j", "k", "l", "m",
          "n", "o", "p", "q", "r", "s", "t", "u", "v", "w", "x", "y", "z"}
Upper == {"A", "B", "C", "D", "E", "F", "G", "H", "I", "J", "K", "L", "M",
          "N", "O", "P", "Q", "R", "S", "T", "U", "V", "W", "X", "Y", "Z"}
NonAscii == {"U+00E9"}

\* str::is_ascii, per character
IsAscii(c) == c \notin NonAscii
\* char::is_ascii_whitespace: U+0020, U+0009, U+000A, U+000C, U+000D
IsAsciiWhitespace(c) == c \in {" ", "\t", "\n", "\f", "\r"}
\* the characters nom's multispace0 / multispace1 accept
IsMultispace(c) == c \in {" ", "\t", "\r", "\n"}
\* char::is_whitespace, as str::trim_start uses it, on the characters above
IsWhitespace(c) == c \in {" ", "\t", "\n", "\f", "\r"}
\* matches!(c, 'a'..='z' | 'A'..='Z' | '0'..='9')
IsSymbolChar(c) == c \in Lower \cup Upper \cup Digit
IsDigit(c) == c \in Digit
DigitVal(c) == CASE c = "0" -> 0 [] c = "1" -> 1 [] c = "2" -> 2 [] c = "3" -> 3
                 [] c = "4" -> 4 [] c = "5" -> 5 [] c = "6" -> 6 [] c = "7" -> 7
                 [] c = "8" -> 8 [] c = "9" -> 9

---------------------------------------------------------------------------
(* Slices and parse results *)

Slice(off, txt) == [off |-> off, txt |-> txt]
SDrop(s, n) == [off |-> s.off + n, txt |-> SubSeq(s.txt, n + 1, Len(s.txt))]
STake(s, n) == [off |-> s.off, txt |-> SubSeq(s.txt, 1, n)]

\* length of the longest prefix of t whose characters all satisfy P
PrefixLen(t, P(_)) ==
    LET Before(stop) == IF stop = {} THEN Len(t)
                        ELSE (CHOOSE i \in stop : \A j \in stop : i <= j) - 1
    IN  Before({i \in 1..Len(t) : ~P(t[i])})

StartsWith(t, p) == Len(p) <= Len(t) /\ SubSeq(t, 1, Len(p)) = p

None == [some |-> FALSE]
Some(v) == [some |-> TRUE, val |-> v]

Ok(rest, o) == [kind |-> "Ok", rest |-> rest, out |-> o]
Error(i, code) == [kind |-> "Error", input |-> i, code |-> code]
Failure(i, code) == [kind |-> "Failure", input |-> i, code |-> code]
Incomplete == [kind |-> "Incomplete"]
Panic == [kind |-> "Panic"]
NotCalled == [kind |-> "None"]

---------------------------------------------------------------------------
(* The nom parsers the crate uses *)

\* the first n characters of s taken as the output
Split(s, n) == Ok(SDrop(s, n), STake(s, n))
\* the same, an empty output being the error code
Split1(s, n, code) == IF n = 0 THEN Error(s, code) ELSE Split(s, n)

multispace0(s) == Split(s, PrefixLen(s.txt, IsMultispace))

multispace1(s) == Split1(s, PrefixLen(s.txt, IsMultispace), "MultiSpace")

take_while(P(_), s) == Split(s, PrefixLen(s.txt, P))

take_till(P(_), s) ==
    LET NotP(c) == ~P(c) IN Split(s, PrefixLen(s.txt, NotP))

tag(t, s) ==
    IF StartsWith(s.txt, t) THEN Ok(SDrop(s, Len(t)), STake(s, Len(t)))
    ELSE Error(s, "Tag")

\* nom::character::streaming::char: end of input is Incomplete, not an error
char(c, s) ==
    IF s.txt = <<>> THEN Incomplete
    ELSE IF s.txt[1] = c THEN Ok(SDrop(s, 1), c)
    ELSE Error(s, "Char")

\* nom::bytes::complete::is_not: the longest non-empty run of characters not in cs
is_not(cs, s) ==
    LET Other(c) == c \notin cs IN Split1(s, PrefixLen(s.txt, Other), "IsNot")

\* nom::bytes::complete::take_until: everything before the first occurrence of t
take_until(t, s) ==
    LET First(at) == IF at = {} THEN Error(s, "TakeUntil")
                     ELSE Split(s, CHOOSE i \in at : \A j \in at : i <= j)
    IN  First({i \in 0..Len(s.txt) : StartsWith(SubSeq(s.txt, i + 1, Len(s.txt)), t)})

\* nom::combinator::complete applied to the result r of a parser run on s
complete(r, s) == IF r.kind = "Incomplete" THEN Error(s, "Complete") ELSE r

\* nom::combinator::opt applied to the result r of a parser run on s
opt(r, s) ==
    IF r.kind = "Ok" THEN Ok(r.rest, Some(r.out))
    ELSE IF r.kind = "Error" THEN Ok(s, None)
    ELSE r

---------------------------------------------------------------------------
(* Integer parsing of the standard library *)

U16_MAX == 65535

\* usize::MAX of a 64-bit target, as a decimal numeral.  A usize is kept as its
\* decimal numeral (most significant digit first, no leading zero).
USIZE_MAX == <<"1", "8", "4", "4", "6", "7", "4", "4", "0", "7",
               "3", "7", "0", "9", "5", "5", "1", "6", "1", "5">>

ResultOk(v) == [ok |-> TRUE, val |-> v]
ResultErr(e) == [ok |-> FALSE, err |-> e]

\* the sign handling of from_str_radix for an unsigned type: a lone sign is an
\* invalid digit, a leading "+" is dropped, a leading "-" is left to the digit loop
StripSign(t) ==
    IF Len(t) = 1 /\ t[1] \in {"+", "-"} THEN ResultErr("InvalidDigit")
    ELSE IF t[1] = "+" THEN ResultOk(Tail(t))
    ELSE ResultOk(t)

\* the digit loop of u16::from_str_radix: checked_mul(10), then checked_add(digit)
RECURSIVE AccU16(_, _, _)
AccU16(d, i, acc) ==
    IF i > Len(d) THEN ResultOk(acc)
    ELSE IF ~IsDigit(d[i]) THEN ResultErr("InvalidDigit")
    ELSE IF acc * 10 + DigitVal(d[i]) > U16_MAX THEN ResultErr("PosOverflow")
    ELSE AccU16(d, i + 1, acc * 10 + DigitVal(d[i]))

\* u16::from_str_radix(t, 10)
u16_from_str_radix(t) ==
    LET Digits(d) == IF d.ok THEN AccU16(d.val, 1, 0) ELSE d
    IN  IF t = <<>> THEN ResultErr("Empty") ELSE Digits(StripSign(t))

\* numerals: a * 10 + c, and a <= b
NumeralPush(a, c) == IF a = <<"0">> THEN <<c>> ELSE Append(a, c)
NumeralLeq(a, b) ==
    \/ Len(a) < Len(b)
    \/ /\ Len(a) = Len(b)
       /\ \/ a = b
          \/ \E i \in 1..Len(a) :
                /\ DigitVal(a[i]) < DigitVal(b[i])
                /\ \A j \in 1..(i - 1) : a[j] = b[j]

\* the digit loop of usize::from_str_radix
RECURSIVE AccUsize(_, _, _)
AccUsize(d, i, acc) ==
    LET Step(next) == IF ~NumeralLeq(next, USIZE_MAX) THEN ResultErr("PosOverflow")
                      ELSE AccUsize(d, i + 1, next)
    IN  IF i > Len(d) THEN ResultOk(acc)
        ELSE IF ~IsDigit(d[i]) THEN ResultErr("InvalidDigit")
        ELSE Step(NumeralPush(acc, d[i]))

\* usize::from_str_radix(t, 10)
usize_from_str_radix(t) ==
    LET Digits(d) == IF d.ok THEN AccUsize(d.val, 1, <<"0">>) ELSE d
    IN  IF t = <<>> THEN ResultErr("Empty") ELSE Digits(StripSign(t))

---------------------------------------------------------------------------
(* parser/instruction.rs *)

Name(t) == [tag |-> "Name", text |-> t]
Value(v) == [tag |-> "Value", value |-> v]
Number(n) == [tag |-> "Number", num |-> n]
BadSymbol(t) == [tag |-> "BadSymbol", text |-> t]
BusRange(s, e) == [start |-> s, end |-> e]
Argument(i, ib, e, eb) ==
    [internal |-> i, internal_bus |-> ib, external |-> e, external_bus |-> eb]
Instruction(n, args) == [chip_name |-> n, inputs |-> args]

T_true == <<"t", "r", "u", "e">>
T_false == <<"f", "a", "l", "s", "e">>

\* the parser r, then F on what it returned: the sequencing of tuple, delimited,
\* separated_pair and of the ? operator
AndThen(r, F(_)) == IF r.kind = "Ok" THEN F(r) ELSE r

\* impl TryFrom<&str> for Symbol
Symbol_try_from(value) ==
    LET Classify(num) == IF num.ok THEN Number(num.val)
                         ELSE IF value = T_true THEN Value("True")
                         ELSE IF value = T_false THEN Value("False")
                         ELSE Name(value)
    IN  IF (\A i \in 1..Len(value) : IsAscii(value[i]))
           /\ (\A i \in 1..Len(value) : ~IsAsciiWhitespace(value[i]))
        THEN ResultOk(Classify(usize_from_str_radix(value)))
        ELSE ResultErr(BadSymbol(value))

\* fn symbol without the surrounding multispace0
symbol_untrimmed(arg) == take_while(IsSymbolChar, arg)

\* fn symbol: delimited(multispace0, take_while(letter or digit), multispace0)
symbol(arg) ==
    AndThen(multispace0(arg), LAMBDA r1 :
    AndThen(take_while(IsSymbolChar, r1.rest), LAMBDA r2 :
    AndThen(multispace0(r2.rest), LAMBDA r3 :
        Ok(r3.rest, r2.out))))

\* separated_pair(symbol, tag(".."), symbol)
symbol_pair(arg) ==
    AndThen(symbol(arg), LAMBDA r1 :
    AndThen(tag(<<".", ".">>, r1.rest), LAMBDA r2 :
    AndThen(symbol(r2.rest), LAMBDA r3 :
        Ok(r3.rest, [start |-> r1.out, end |-> r3.out]))))

\* delimited(multispace0, delimited(char('['), is_not("]"), char(']')), multispace0)
bracketed(arg) ==
    AndThen(multispace0(arg), LAMBDA r1 :
    AndThen(char("[", r1.rest), LAMBDA r2 :
    AndThen(is_not({"]"}, r2.rest), LAMBDA r3 :
    AndThen(char("]", r3.rest), LAMBDA r4 :
    AndThen(multispace0(r4.rest), LAMBDA r5 :
        Ok(r5.rest, r3.out))))))

\* the match of fn bus_range with Err::Error in place of Err::Failure
bus_range_match_recoverable(remainder, start, end, s, e) ==
    IF s.ok /\ e.ok THEN Ok(remainder, BusRange(s.val, e.val))
    ELSE IF ~s.ok THEN Error(start, "Tag")
    ELSE Error(end, "Tag")

\* the match of fn bus_range on the two symbols read as u16
bus_range_match(remainder, start, end, s, e) ==
    IF s.ok /\ e.ok THEN Ok(remainder, BusRange(s.val, e.val))
    ELSE IF ~s.ok THEN Failure(start, "Tag")
    ELSE Failure(end, "Tag")

\* fn bus_range: the bracketed text, and_then the symbol pair on its content (what
\* the pair leaves of the content is dropped), then both symbols as u16
bus_range(arg) ==
    AndThen(bracketed(arg), LAMBDA r1 :
    AndThen(symbol_pair(r1.out), LAMBDA r2 :
        bus_range_match(r1.rest, r2.out.start, r2.out.end,
                        u16_from_str_radix(r2.out.start.txt),
                        u16_from_str_radix(r2.out.end.txt))))

\* fn symbol_bus: tuple((symbol, opt(complete(bus_range))))
symbol_bus(arg) ==
    AndThen(symbol(arg), LAMBDA r1 :
    AndThen(opt(complete(bus_range(r1.rest), r1.rest), r1.rest), LAMBDA r2 :
        Ok(r2.rest, [sym |-> r1.out, bus |-> r2.out])))

\* opt(complete(tuple((char(','), take_till(|c| !c.is_ascii_whitespace())))))
skip_comma(arg) ==
    LET NotSpace(c) == ~IsAsciiWhitespace(c)
    IN  opt(complete(AndThen(char(",", arg), LAMBDA r1 :
                     AndThen(take_till(NotSpace, r1.rest), LAMBDA r2 :
                         Ok(r2.rest, <<r1.out, r2.out>>))),
                     arg),
            arg)

\* str::trim_start
trim_start(s) == SDrop(s, PrefixLen(s.txt, IsWhitespace))

\* the end of fn parse_arg: both symbols unwrapped, the remainder trimmed
parse_arg_build(remainder, internal, internal_bus, external, external_bus) ==
    IF ~internal.ok \/ ~external.ok THEN Panic
    ELSE Ok(trim_start(remainder),
            Argument(internal.val, internal_bus, external.val, external_bus))

\* fn parse_arg
parse_arg(arg) ==
    AndThen(symbol_bus(arg), LAMBDA r1 :
    AndThen(tag(<<"=">>, r1.rest), LAMBDA r2 :
    AndThen(symbol_bus(r2.rest), LAMBDA r3 :
    AndThen(skip_comma(r3.rest), LAMBDA r4 :
        parse_arg_build(r4.rest,
                        Symbol_try_from(r1.out.sym.txt), r1.out.bus,
                        Symbol_try_from(r3.out.sym.txt), r3.out.bus)))))

\* many0(complete(parse_arg))
RECURSIVE many0_parse_arg(_, _)
many0_parse_arg(i, acc) ==
    LET Loop(r) == IF r.kind = "Error" THEN Ok(i, acc)
                   ELSE IF r.kind # "Ok" THEN r
                   ELSE IF Len(r.rest.txt) = Len(i.txt) THEN Error(i, "Many0")
                   ELSE many0_parse_arg(r.rest, Append(acc, r.out))
    IN  Loop(complete(parse_arg(i), i))

\* fn parse_args: delimited(char('('), many0(complete(parse_arg)), char(')'))
parse_args(arg) ==
    AndThen(char("(", arg), LAMBDA r1 :
    AndThen(many0_parse_arg(r1.rest, <<>>), LAMBDA r2 :
    AndThen(char(")", r2.rest), LAMBDA r3 :
        Ok(r3.rest, r2.out))))

\* the end of fn parse_instruction: the name must be a Symbol::Name
parse_instruction_build(remainder, name, args, sym) ==
    IF sym.ok /\ sym.val.tag = "Name"
    THEN Ok(remainder, Instruction(Name(sym.val.text), args))
    ELSE Failure(name, "Alpha")

\* fn parse_instruction
parse_instruction(arg) ==
    AndThen(symbol(arg), LAMBDA r1 :
    AndThen(parse_args(r1.rest), LAMBDA r2 :
    AndThen(multispace0(r2.rest), LAMBDA r3 :
    AndThen(char(";", r3.rest), LAMBDA r4 :
    AndThen(multispace0(r4.rest), LAMBDA r5 :
        parse_instruction_build(r5.rest, r1.out, r2.out,
                                Symbol_try_from(r1.out.txt)))))))

---------------------------------------------------------------------------
(* parser/mod.rs *)

\* complete(delimited(tag("/*"), take_until("*/"), tag("*/")))
block_comment(arg) ==
    complete(AndThen(tag(<<"/", "*">>, arg), LAMBDA r1 :
             AndThen(take_until(<<"*", "/">>, r1.rest), LAMBDA r2 :
             AndThen(tag(<<"*", "/">>, r2.rest), LAMBDA r3 :
                 Ok(r3.rest, r2.out)))),
             arg)

\* complete(preceded(tag("//"), is_not("\n")))
line_comment(arg) ==
    complete(AndThen(tag(<<"/", "/">>, arg), LAMBDA r1 : is_not({"\n"}, r1.rest)), arg)

\* alt: the first parser, and on its Error the second
Alt(r, next) == IF r.kind = "Error" THEN next ELSE r

\* alt((multispace1, block comment, line comment))
space_or_comment(arg) ==
    Alt(multispace1(arg), Alt(block_comment(arg), line_comment(arg)))

\* many0(alt((...)))
RECURSIVE many0_space(_)
many0_space(i) ==
    LET Loop(r) == IF r.kind = "Error" THEN Ok(i, <<>>)
                   ELSE IF r.kind # "Ok" THEN r
                   ELSE IF Len(r.rest.txt) = Len(i.txt) THEN Error(i, "Many0")
                   ELSE many0_space(r.rest)
    IN  Loop(space_or_comment(i))

\* fn generic_space1: many0(alt((...))), its output mapped to ()
generic_space1(arg) ==
    AndThen(many0_space(arg), LAMBDA r : Ok(r.rest, <<>>))

\* fn generic_space0: opt(generic_space1), its output mapped to ()
generic_space0(arg) ==
    AndThen(opt(generic_space1(arg), arg), LAMBDA r : Ok(r.rest, <<>>))

---------------------------------------------------------------------------
(* model/builtin.rs and model/chip/native/mod.rs *)

Interface(ci, co, si, so) == [com_in |-> ci, com_out |-> co, seq_in |-> si, seq_out |-> so]
NoPins == [n \in {} |-> BusRange(0, 0)]

Returned(c, v) == [panic |-> FALSE, chip |-> c, ret |-> v]
Unwound(c) == [panic |-> TRUE, chip |-> c]

Nand == [kind |-> "Nand"]

\* fn get_builtin
get_builtin(name) == IF name = "Nand" THEN Some(Nand) ELSE None

\* Nand::interface
Nand_interface(self) ==
    Interface(("a" :> BusRange(0, 0)) @@ ("b" :> BusRange(1, 1)),
              "out" :> BusRange(1, 1),
              NoPins, NoPins)

\* Nand::clock
Nand_clock(self) == Returned(self, <<>>)

\* Nand::eval with the negation left out
Nand_eval_and(self, p) ==
    IF Len(p) < 1 THEN Unwound(self)
    ELSE IF p[1] /\ Len(p) < 2 THEN Unwound(self)
    ELSE Returned(self, <<p[1] /\ p[2]>>)

\* Nand::eval: vec![!(pins[0] && pins[1])]; indexing past the slice panics, and
\* pins[1] is read only when pins[0] is true.  Rust's pins[i] is p[i + 1] here.
Nand_eval(self, p) ==
    IF Len(p) < 1 THEN Unwound(self)
    ELSE IF p[1] /\ Len(p) < 2 THEN Unwound(self)
    ELSE Returned(self, <<~(p[1] /\ p[2])>>)

NativeChip(graph, interface) ==
    [kind |-> "NativeChip", conn_graph |-> graph, interface |-> interface]

\* NativeChip::interface
NativeChip_interface(self) == self.interface

\* NativeChip::clock: todo!()
NativeChip_clock(self) == Unwound(self)

\* NativeChip::eval: todo!()
NativeChip_eval(self, p) == Unwound(self)

\* dispatch through the chip trait object
Chip_interface(self) ==
    IF self.kind = "Nand" THEN Nand_interface(self) ELSE NativeChip_interface(self)
Chip_clock(self) ==
    IF self.kind = "Nand" THEN Nand_clock(self) ELSE NativeChip_clock(self)
Chip_eval(self, p) ==
    IF self.kind = "Nand" THEN Nand_eval(self, p) ELSE NativeChip_eval(self, p)

\* the chips simulated: the builtin, and two native chips (a one-bit buffer of one
\* part, a one-bit register of one part)
NativeChips ==
    { NativeChip(<<"Nand">>, Interface("in" :> BusRange(0, 0), "out" :> BusRange(0, 0),
                                       NoPins, NoPins)),
      NativeChip(<<"DFF">>, Interface(NoPins, NoPins,
                                      "in" :> BusRange(0, 0), "out" :> BusRange(0, 0))) }
Chips == {get_builtin("Nand").val} \cup NativeChips

PinVectors == UNION {[1..n -> BOOLEAN] : n \in 0..MaxPins}

---------------------------------------------------------------------------
(* The texts handed to the parsers *)

DigitChar(d) == CASE d = 0 -> "0" [] d = 1 -> "1" [] d = 2 -> "2" [] d = 3 -> "3"
                  [] d = 4 -> "4" [] d = 5 -> "5" [] d = 6 -> "6" [] d = 7 -> "7"
                  [] d = 8 -> "8" [] d = 9 -> "9"

\* the decimal numeral of n
RECURSIVE ToDigits(_)
ToDigits(n) == IF n < 10 THEN <<DigitChar(n)>>
               ELSE Append(ToDigits(n \div 10), DigitChar(n % 10))

RECURSIVE Concat(_)
Concat(ts) == IF ts = <<>> THEN <<>> ELSE Head(ts) \o Concat(Tail(ts))

T_Nand == <<"N", "a", "n", "d">>
T_foo == <<"f", "o", "o">>
T_big == NumeralPush(SubSeq(USIZE_MAX, 1, Len(USIZE_MAX) - 1), "6")   \* usize::MAX + 1

\* a symbol of a generated text: its characters and the Symbol it stands for
Sym(t, s) == [txt |-> t, sym |-> s]
\* a bound of a generated bus range: its characters and, for a numeral, its value
Num(n) == [txt |-> ToDigits(n), val |-> n]
NotNum(t) == [txt |-> t, val |-> -1]

WsRuns == {<<" ">>, <<"\n">>, <<" ", "\t", "\n">>}
Kinds == {"afterName", "afterLParen", "beforeEq", "afterEq", "beforeLBr", "afterLBr",
          "beforeDots", "afterDots", "beforeRBr", "afterRBr", "beforeComma",
          "afterComma", "beforeRParen", "beforeSemi", "afterSemi"}
BusKinds == {"afterLBr", "beforeDots", "afterDots", "beforeRBr", "afterRBr"}
ArgKinds == BusKinds \cup {"beforeEq", "afterEq", "beforeLBr"}

\* the paddings: none, or one whitespace run at one boundary of ks or at all of them
NoPad == [k \in Kinds |-> <<>>]
Pads1(ks) ==
    {NoPad}
        \cup { [k \in Kinds |-> IF k \in ks THEN w ELSE <<>>] : w \in WsRuns }
        \cup { [k \in Kinds |-> IF k = p THEN w ELSE <<>>] : p \in ks, w \in WsRuns }
\* the same, and one whitespace run at two boundaries of ks
Pads(ks) ==
    Pads1(ks)
        \cup { [k \in Kinds |-> IF k \in {p[1], p[2]} THEN w ELSE <<>>] :
                  p \in ks \X ks, w \in WsRuns }

BusPads == Pads(BusKinds)
SidePads == Pads(BusKinds \cup {"beforeLBr"})
ArgPads == Pads(ArgKinds)
ArgsPads == Pads(ArgKinds \cup {"afterLParen", "beforeComma", "afterComma", "beforeRParen"})
InstrPads == Pads1(Kinds)

BusText(b, pad) ==
    Concat(<<  <<"[">>, pad["afterLBr"], b.x.txt, pad["beforeDots"], <<".", ".">>,
               pad["afterDots"], b.y.txt, pad["beforeRBr"], <<"]">>, pad["afterRBr"]  >>)

SymBusText(s, bus, pad) ==
    IF bus.some THEN Concat(<<s.txt, pad["beforeLBr"], BusText(bus.val, pad)>>)
    ELSE s.txt

ArgText(a, pad) ==
    Concat(<<  SymBusText(a.internal, a.internal_bus, pad), pad["beforeEq"], <<"=">>,
               pad["afterEq"], SymBusText(a.external, a.external_bus, pad)  >>)

RECURSIVE ArgsText(_, _)
ArgsText(as, pad) ==
    IF as = <<>> THEN <<>>
    ELSE IF Len(as) = 1 THEN ArgText(as[1], pad)
    ELSE Concat(<<  ArgText(as[1], pad), pad["beforeComma"], <<",">>, pad["afterComma"],
                    ArgsText(Tail(as), pad)  >>)

ArgListText(as, pad) ==
    Concat(<<  <<"(">>, pad["afterLParen"], ArgsText(as, pad), pad["beforeRParen"],
               <<")">>  >>)

InstrText(name, as, pad) ==
    Concat(<<  name.txt, pad["afterName"], ArgListText(as, pad), pad["beforeSemi"],
               <<";">>, pad["afterSemi"]  >>)

BusBounds == {Num(0), Num(1), Num(15), Num(U16_MAX), Num(U16_MAX + 1),
              NotNum(<<"a", "b">>), NotNum(<<"1", "a">>), NotNum(<<>>)}
Buses == {[x |-> x, y |-> y] : x \in BusBounds, y \in BusBounds}
Bus(x, y) == Some([x |-> x, y |-> y])

Arg(i, ib, e, eb) ==
    [internal |-> i, internal_bus |-> ib, external |-> e, external_bus |-> eb]

S_a == Sym(<<"a">>, Name(<<"a">>))
S_b == Sym(<<"b">>, Name(<<"b">>))
S_in == Sym(<<"i", "n">>, Name(<<"i", "n">>))
S_out == Sym(<<"o", "u", "t">>, Name(<<"o", "u", "t">>))
S_foo == Sym(T_foo, Name(T_foo))
S_2 == Sym(<<"2">>, Number(<<"2">>))
S_true == Sym(T_true, Value("True"))
S_false == Sym(T_false, Value("False"))
S_Nand == Sym(T_Nand, Name(T_Nand))

\* the arguments of the generated instructions, in the order they are drawn from
ArgPool ==
    <<  Arg(S_a, Bus(Num(3), Num(4)), S_2, None),
        Arg(S_b, Bus(Num(1), Num(10)), S_false, None),
        Arg(S_out, None, S_foo, Bus(Num(6), Num(9))),
        Arg(S_in, None, S_true, None),
        Arg(S_a, Bus(Num(9), Num(10)), S_b, Bus(Num(5), Num(10))),
        Arg(S_in, None, S_b, Bus(Num(0), NotNum(<<"x">>))),
        Arg(S_a, Bus(Num(U16_MAX + 1), Num(1)), S_b, None),
        Arg(S_out, None, S_a, None),
        Arg(Sym(<<>>, Name(<<>>)), None, S_b, None)  >>

ArgLists ==
    { SubSeq(ArgPool, w[1], w[2]) :
        w \in {v \in (1..Len(ArgPool)) \X (0..Len(ArgPool)) :
                  v[2] - v[1] + 1 \in 0..MaxArgs} }

ChipNames ==
    { S_Nand,
      Sym(<<"1", "2">>, Number(<<"1", "2">>)),
      Sym(T_true, Value("True")),
      Sym(T_false, Value("False")),
      Sym(T_big, Number(T_big)),
      Sym(<<>>, Name(<<>>)) }

Tails == {<<>>, <<"a", "n", "d">>}
ArgTails == {<<>>, <<")">>, <<",", " ", "o", "u", "t", "=", "b">>}

\* the two sides of the arguments of the pool
ArgSides ==
    { <<ArgPool[i].internal, ArgPool[i].internal_bus>> : i \in 1..Len(ArgPool) }
        \cup { <<ArgPool[i].external, ArgPool[i].external_bus>> : i \in 1..Len(ArgPool) }

SymbolAlphabet == {"0", "1", "a", "+", " ", "U+00E9"}
RECURSIVE TextsUpTo(_, _)
TextsUpTo(cs, n) ==
    IF n = 0 THEN {<<>>}
    ELSE LET shorter == TextsUpTo(cs, n - 1)
         IN  shorter \cup {Append(t, c) : t \in shorter, c \in cs}

SymbolTexts ==
    TextsUpTo(SymbolAlphabet, MaxSymLen)
        \cup {T_true, T_false, T_foo, T_Nand, T_big, USIZE_MAX, ToDigits(12345),
              <<"0", "0", "7">>, <<"-", "5">>, <<"a", "\t", "b">>, <<"a", "\n", "b">>,
              <<"u", " ", "r", " ", "b", "a", "d">>}

SpaceAlphabet == {" ", "\n", "/", "*", "a"}
SpaceTexts == TextsUpTo(SpaceAlphabet, MaxSpaceLen)

---------------------------------------------------------------------------
(* The state machine *)

Init ==
    /\ input = <<>>
    /\ gen = [form |-> "none"]
    /\ op = "none"
    /\ result = NotCalled
    /\ chip \in Chips
    /\ pins = <<>>
    /\ out = <<>>
    /\ iface = None
    /\ lastCall = "none"
    /\ nEval = 0
    /\ nClock = 0
    /\ panicked = FALSE

Call(o, t, g, r) ==
    /\ input' = t
    /\ gen' = g
    /\ op' = o
    /\ result' = r
    /\ UNCHANGED chipVars

SymbolTryFromCall ==
    /\ op = "none"
    /\ \E t \in SymbolTexts :
        Call("Symbol::try_from", t, [form |-> "text"], Symbol_try_from(t))

SymbolCall ==
    /\ op = "none"
    /\ \E t \in SymbolTexts :
        Call("symbol", t, [form |-> "text"], symbol(Slice(0, t)))

BusRangeCall ==
    /\ op = "none"
    /\ \E b \in Buses, pad \in BusPads, tail \in Tails :
        LET t == BusText(b, pad) \o tail
        IN  Call("bus_range", t, [form |-> "bus", bus |-> b, pad |-> pad, tail |-> tail],
                 bus_range(Slice(0, t)))

SymbolBusCall ==
    /\ op = "none"
    /\ \E side \in ArgSides, pad \in SidePads, tail \in ArgTails :
        LET t == SymBusText(side[1], side[2], pad) \o tail
        IN  Call("symbol_bus", t,
                 [form |-> "side", sym |-> side[1], bus |-> side[2], pad |-> pad,
                  tail |-> tail],
                 symbol_bus(Slice(0, t)))

ParseArgCall ==
    /\ op = "none"
    /\ \E i \in 1..Len(ArgPool), pad \in ArgPads, tail \in ArgTails :
        LET t == ArgText(ArgPool[i], pad) \o tail
        IN  Call("parse_arg", t,
                 [form |-> "arg", args |-> <<ArgPool[i]>>, pad |-> pad, tail |-> tail],
                 parse_arg(Slice(0, t)))

ParseArgsCall ==
    /\ op = "none"
    /\ \E as \in ArgLists,
       pad \in ArgsPads :
        LET t == ArgListText(as, pad)
        IN  Call("parse_args", t, [form |-> "args", args |-> as, pad |-> pad],
                 parse_args(Slice(0, t)))

ParseInstructionCall ==
    /\ op = "none"
    /\ \E name \in ChipNames, as \in ArgLists, pad \in InstrPads :
        LET t == InstrText(name, as, pad)
        IN  Call("parse_instruction", t,
                 [form |-> "instr", name |-> name, args |-> as, pad |-> pad],
                 parse_instruction(Slice(0, t)))

GenericSpace1Call ==
    /\ op = "none"
    /\ \E t \in SpaceTexts :
        Call("generic_space1", t, [form |-> "text"], generic_space1(Slice(0, t)))

GenericSpace0Call ==
    /\ op = "none"
    /\ \E t \in SpaceTexts :
        Call("generic_space0", t, [form |-> "text"], generic_space0(Slice(0, t)))

EvalCall ==
    \E p \in PinVectors :
        /\ ~panicked
        /\ nEval < MaxCalls
        /\ LET Do(r) == /\ chip' = r.chip
                        /\ panicked' = r.panic
                        /\ out' = IF r.panic THEN out ELSE r.ret
           IN  Do(Chip_eval(chip, p))
        /\ pins' = p
        /\ lastCall' = "eval"
        /\ nEval' = nEval + 1
        /\ UNCHANGED <<iface, nClock>>
        /\ UNCHANGED parserVars

ClockCall ==
    /\ ~panicked
    /\ nClock < MaxCalls
    /\ LET Do(r) == chip' = r.chip /\ panicked' = r.panic
       IN  Do(Chip_clock(chip))
    /\ lastCall' = "clock"
    /\ nClock' = nClock + 1
    /\ UNCHANGED <<pins, out, iface, nEval>>
    /\ UNCHANGED parserVars

InterfaceCall ==
    /\ ~panicked
    /\ iface' = Some(Chip_interface(chip))
    /\ lastCall' = "interface"
    /\ UNCHANGED <<chip, pins, out, nEval, nClock, panicked>>
    /\ UNCHANGED parserVars

NextParser ==
    \/ SymbolTryFromCall
    \/ SymbolCall
    \/ BusRangeCall
    \/ SymbolBusCall
    \/ ParseArgCall
    \/ ParseArgsCall
    \/ ParseInstructionCall
    \/ GenericSpace1Call
    \/ GenericSpace0Call

NextChip ==
    \/ EvalCall
    \/ ClockCall
    \/ InterfaceCall

Next == NextParser \/ NextChip

Spec == Init /\ [][Next]_vars

\* The parser and the simulator share no state; each is checked on its own.  The
\* parsers are pure functions: a behaviour of the parser is one call.
InitParser == Init /\ chip = Nand
SpecParser == InitParser /\ [][NextParser]_vars
SpecChip == Init /\ [][NextChip]_vars

---------------------------------------------------------------------------
(* What the generated texts stand for *)

\* a bound of a bus range that is a decimal integer of the bit-index type
GoodBound(x) == x.val \in 0..65535
GoodBus(b) == ~b.some \/ (GoodBound(b.val.x) /\ GoodBound(b.val.y))
\* the first bound of a bad bus range that is bad
Offender(b) == IF ~GoodBound(b.x) THEN b.x ELSE b.y

ArgBuses(as) ==
    Concat([i \in 1..Len(as) |-> <<as[i].internal_bus, as[i].external_bus>>])
HasBadBus(as) == \E i \in 1..Len(ArgBuses(as)) : ~GoodBus(ArgBuses(as)[i])
\* the first bad bus range of the arguments, in source order
FirstBadBus(as) ==
    ArgBuses(as)[CHOOSE i \in 1..Len(ArgBuses(as)) :
                    /\ ~GoodBus(ArgBuses(as)[i])
                    /\ \A j \in 1..(i - 1) : GoodBus(ArgBuses(as)[j])].val

WfArg(a) ==
    /\ a.internal.txt # <<>>
    /\ a.external.txt # <<>>
    /\ GoodBus(a.internal_bus)
    /\ GoodBus(a.external_bus)
WfArgs(as) == \A i \in 1..Len(as) : WfArg(as[i])

ExpectedBus(b) == IF b.some THEN Some(BusRange(b.val.x.val, b.val.y.val)) ELSE None
ExpectedArg(a) ==
    Argument(a.internal.sym, ExpectedBus(a.internal_bus),
             a.external.sym, ExpectedBus(a.external_bus))
ExpectedArgs(as) == [i \in 1..Len(as) |-> ExpectedArg(as[i])]

\* the empty slice at the end of the text t
EndOf(t) == Slice(Len(t), <<>>)
\* the slice of the text t that is its last n characters
Suffix(t, n) == Slice(Len(t) - n, SubSeq(t, Len(t) - n + 1, Len(t)))

HasSpaceOrNonAscii(t) ==
    \E i \in 1..Len(t) : t[i] \in {" ", "\t", "\n", "\f", "\r"} \cup NonAscii
OnlyDigits(t) == t # <<>> /\ \A i \in 1..Len(t) : t[i] \in Digit
\* the numeral t without its leading zeros
RECURSIVE Canonical(_)
Canonical(t) == IF Len(t) > 1 /\ t[1] = "0" THEN Canonical(Tail(t)) ELSE t

\* what is left of t after its longest prefix of whitespace, /* */ comments and
\* // comments
RECURSIVE RefSkip(_)
RefSkip(t) ==
    LET closes == {i \in 3..(Len(t) - 1) : t[i] = "*" /\ t[i + 1] = "/"}
        newlines == {i \in 1..Len(t) : t[i] = "\n"}
    IN  IF t = <<>> THEN t
        ELSE IF t[1] \in {" ", "\t", "\r", "\n"} THEN RefSkip(Tail(t))
        ELSE IF StartsWith(t, <<"/", "*">>) /\ closes # {}
             THEN RefSkip(SubSeq(t, (CHOOSE i \in closes : \A j \in closes : i <= j) + 2,
                                 Len(t)))
        ELSE IF StartsWith(t, <<"/", "/">>)
             THEN IF newlines = {} THEN <<>>
                  ELSE RefSkip(SubSeq(t, CHOOSE i \in newlines : \A j \in newlines : i <= j,
                                      Len(t)))
        ELSE t

\* the bits a pin map declares
PinBits(m) == UNION {m[n].start .. m[n].end : n \in DOMAIN m}

---------------------------------------------------------------------------
(* Claims *)

\* C1: the NAND builtin is a stateless gate: after any sequence of clock and eval
\* calls, eval([a, b]) returns [not (a and b)].
C1_NandTruthTable ==
    (chip.kind = "Nand" /\ nEval > 0 /\ Len(pins) = 2) =>
        /\ ~panicked
        /\ pins = <<TRUE, TRUE>> => out = <<FALSE>>
        /\ pins = <<TRUE, FALSE>> => out = <<TRUE>>
        /\ pins = <<FALSE, TRUE>> => out = <<TRUE>>
        /\ pins = <<FALSE, FALSE>> => out = <<TRUE>>

C1_Witness ==
    /\ chip.kind = "Nand"
    /\ nClock >= 1
    /\ nEval >= 2
    /\ lastCall = "eval"
    /\ pins = <<TRUE, TRUE>>
    /\ out = <<FALSE>>

\* C2: Symbol::try_from rejects a text with whitespace or a non-ASCII character with
\* BadSymbol(text); of the other texts it makes Number(n) exactly of the texts made
\* of decimal digits only, a boolean literal exactly of "true" and "false", and
\* Name(text) of the rest.
C2_Classification ==
    op = "Symbol::try_from" =>
        IF HasSpaceOrNonAscii(input) THEN result = ResultErr(BadSymbol(input))
        ELSE /\ result.ok
             /\ result.val.tag = "Number" <=> OnlyDigits(input)
             /\ OnlyDigits(input) => result.val = Number(Canonical(input))
             /\ result.val = Value("True") <=> input = T_true
             /\ result.val = Value("False") <=> input = T_false
             /\ (~OnlyDigits(input) /\ input \notin {T_true, T_false})
                    => result.val = Name(input)

\* C3: no Symbol holds an empty, non-ASCII or whitespace-containing text:
\* Symbol::try_from fails on each such text, and no Instruction or Argument that
\* parse_instruction or parse_arg returns holds a Name with an empty text.
C3_NoEmptySymbol ==
    /\ (op = "Symbol::try_from" /\ (input = <<>> \/ HasSpaceOrNonAscii(input)))
            => ~result.ok
    /\ (op = "parse_arg" /\ result.kind = "Ok")
            => Name(<<>>) \notin {result.out.internal, result.out.external}
    /\ (op = "parse_instruction" /\ result.kind = "Ok")
            => /\ result.out.chip_name # Name(<<>>)
               /\ \A i \in 1..Len(result.out.inputs) :
                     Name(<<>>) \notin {result.out.inputs[i].internal,
                                        result.out.inputs[i].external}

\* C4: bus_range reads "[" ws s ws ".." ws e ws "]" ws, for bit indices s and e and
\* any whitespace runs ws, as the range {start: s, end: e}, as it reads "[s..e]",
\* with the trailing whitespace consumed and the rest of the input left.
C4_BusRangeWhitespace ==
    (op = "bus_range" /\ GoodBus(Some(gen.bus))) =>
        /\ result = Ok(Suffix(input, Len(gen.tail)),
                       BusRange(gen.bus.x.val, gen.bus.y.val))
        /\ result.rest.txt = gen.tail
        /\ result.out = bus_range(Slice(0, BusText(gen.bus, NoPad) \o gen.tail)).out

C4_Witness ==
    /\ op = "bus_range"
    /\ \A k \in BusKinds : gen.pad[k] = <<" ", "\t", "\n">>
    /\ gen.tail = <<"a", "n", "d">>
    /\ result.kind = "Ok"
    /\ result.out = BusRange(15, 65535)
    /\ result.rest.txt = <<"a", "n", "d">>

\* C5: a bound of a bus range "[x..y]" that is no decimal integer of the 16-bit
\* bit-index type makes bus_range fail with a Failure at that bound (at x when x is
\* bad, at y when only y is), and symbol_bus, parse_arg, parse_args and
\* parse_instruction fail with it instead of taking the bus range as absent.  (An
\* empty bound lies where the whitespace around it ends.)
C5_BadBoundIsHardFailure ==
    /\ (op = "bus_range" /\ ~GoodBus(Some(gen.bus))) =>
          LET xOff == 1 + Len(gen.pad["afterLBr"])
                          + (IF gen.bus.x.txt = <<>> THEN Len(gen.pad["beforeDots"]) ELSE 0)
              yOff == 1 + Len(gen.pad["afterLBr"]) + Len(gen.bus.x.txt)
                          + Len(gen.pad["beforeDots"]) + 2 + Len(gen.pad["afterDots"])
                          + (IF gen.bus.y.txt = <<>> THEN Len(gen.pad["beforeRBr"]) ELSE 0)
          IN  result = IF ~GoodBound(gen.bus.x)
                       THEN Failure(Slice(xOff, gen.bus.x.txt), "Tag")
                       ELSE Failure(Slice(yOff, gen.bus.y.txt), "Tag")
    /\ (op = "symbol_bus" /\ ~GoodBus(gen.bus)) =>
          /\ result.kind = "Failure"
          /\ result.code = "Tag"
          /\ result.input.txt = Offender(gen.bus.val).txt
    /\ (op \in {"parse_arg", "parse_args", "parse_instruction"} /\ HasBadBus(gen.args)) =>
          /\ result.kind = "Failure"
          /\ result.code = "Tag"
          /\ result.input.txt = Offender(FirstBadBus(gen.args)).txt

C5_Witness ==
    /\ op = "parse_instruction"
    /\ gen.name.txt = T_Nand
    /\ Len(gen.args) = 2
    /\ GoodBus(gen.args[1].internal_bus) /\ GoodBus(gen.args[1].external_bus)
    /\ gen.args[2].external_bus.some
    /\ GoodBound(gen.args[2].external_bus.val.x)
    /\ ~GoodBound(gen.args[2].external_bus.val.y)
    /\ gen.pad["beforeRBr"] # <<>>
    /\ result.kind = "Failure"
    /\ result.input.txt = <<"x">>

\* C6: parse_instruction returns, for a well-formed instruction text, a Failure at
\* the name when the name is a numeric or boolean literal, and the Instruction of
\* that name with the arguments in source order when the name is a name.
C6_ChipNameMustBeName ==
    (op = "parse_instruction" /\ gen.name.txt # <<>> /\ WfArgs(gen.args)) =>
        IF gen.name.sym.tag \in {"Number", "Value"}
        THEN result = Failure(Slice(0, gen.name.txt), "Alpha")
        ELSE /\ result.kind = "Ok"
             /\ result.out = Instruction(gen.name.sym, ExpectedArgs(gen.args))

\* C7: whitespace at the token boundaries of an instruction name "(" arguments ")"
\* ";" is insignificant: parse_instruction returns the Instruction of the text
\* without it and consumes the whole text.
C7_WhitespaceInsignificant ==
    (op = "parse_instruction" /\ gen.name.txt # <<>> /\ gen.name.sym.tag = "Name"
        /\ WfArgs(gen.args)) =>
        /\ result = Ok(EndOf(input), Instruction(gen.name.sym, ExpectedArgs(gen.args)))
        /\ result.out = parse_instruction(Slice(0, InstrText(gen.name, gen.args, NoPad))).out

\* C8: on a constructed chip, no eval call with an input vector of the declared
\* combinatorial-input width and no clock call fails.
C8_RuntimeNeverFails ==
    panicked =>
        /\ lastCall = "eval"
        /\ Len(pins) # Cardinality(PinBits(Chip_interface(chip).com_in))

\* C9: generic_space0 and generic_space1 never fail and leave the input that follows
\* its longest prefix of whitespace, block comments and line comments.
C9_SkipsAllSpaceAndComments ==
    op \in {"generic_space0", "generic_space1"} =>
        /\ result.kind = "Ok"
        /\ result.rest = Suffix(input, Len(RefSkip(input)))
        /\ result.rest.txt = RefSkip(input)

\* C10: the interface of the NAND builtin fits its eval: the ranges of a and b are
\* disjoint and cover the indices 0..1 of the input vector, and the range of out lies
\* within the indices of the vector eval returns.
C10_NandInterfaceFitsEval ==
    (chip.kind = "Nand" /\ iface.some /\ nEval > 0 /\ ~panicked /\ Len(pins) = 2) =>
        /\ \A m, n \in DOMAIN iface.val.com_in :
              m # n => (iface.val.com_in[m].start .. iface.val.com_in[m].end)
                          \cap (iface.val.com_in[n].start .. iface.val.com_in[n].end) = {}
        /\ PinBits(iface.val.com_in) = 0 .. (Len(pins) - 1)
        /\ PinBits(iface.val.com_out) \subseteq 0 .. (Len(out) - 1)

=============================================================================
